---- MODULE Spec2Model ----
(***************************************************************************)
(* sunduk: a single-file key/value store.  The store keeps the values      *)
(* written in this session in store.data, the locators of the chunks in    *)
(* store.index, and rewrites the whole backing file on every Put/PutAll.   *)
(* Files are byte sequences; keys and values are byte sequences.           *)
(*                                                                         *)
(* The model follows the revision of the store that writes <path>.new and  *)
(* renames it onto the live path (src/sunduk_test.go, lines 187-556, after *)
(* the tests); src/sunduk.go and src/unnamed/part_000 hold earlier         *)
(* revisions of the same functions.                                        *)
(***************************************************************************)
EXTENDS Integers, Sequences, FiniteSets, TLC

VARIABLES fs, file, data, index, alive, last, puts, deleted, written, opened, phase

vars == <<fs, file, data, index, alive, last, puts, deleted, written, opened, phase>>

---------------------------------------------------------------------------
(* Bounds of the model *)

\* number of distinct keys the callers use
NumKeys == 2
\* longest value a caller stores
MaxValLen == 1

\* the key names, as bytes: "a", "b", "c", "d"
KeyNames == <<(<<97>>), (<<98>>), (<<99>>), (<<100>>)>>
Keys == {KeyNames[i] : i \in 1..NumKeys}

\* the byte values are made of: "x"
ValBytes == {120}

RECURSIVE SeqsUpTo(_, _)
SeqsUpTo(S, n) ==
    IF n = 0 THEN {<<>>}
    ELSE LET shorter == SeqsUpTo(S, n - 1)
         IN  shorter \cup {Append(s, b) : s \in {t \in shorter : Len(t) = n - 1}, b \in S}

Values == SeqsUpTo(ValBytes, MaxValLen)

\* the maps PutAll is called with
EntryMaps == UNION {[S -> Values] : S \in SUBSET Keys}

---------------------------------------------------------------------------
(* Maps *)

MapPut(m, k, v) == [x \in (DOMAIN m) \cup {k} |-> IF x = k THEN v ELSE m[x]]
MapDel(m, k) == [x \in (DOMAIN m) \ {k} |-> m[x]]
MapMerge(m, e) == [x \in (DOMAIN m) \cup (DOMAIN e) |-> IF x \in DOMAIN e THEN e[x] ELSE m[x]]

---------------------------------------------------------------------------
(* Bytes *)

\* the key separator of the key blob, '#'
DELIM == 35

\* binary.LittleEndian.PutUint32
PutUint32(n) ==
    <<n % 256, (n \div 256) % 256, (n \div 65536) % 256, (n \div 16777216) % 256>>

\* binary.LittleEndian.Uint32 of the 4 bytes of s that follow position pos
Uint32(s, pos) ==
    s[pos + 1] + 256 * s[pos + 2] + 65536 * s[pos + 3] + 16777216 * s[pos + 4]

Slice(s, pos, n) == [i \in 1..n |-> s[pos + i]]

RECURSIVE Concat(_)
Concat(ss) == IF ss = <<>> THEN <<>> ELSE Head(ss) \o Concat(Tail(ss))

\* the first byte of every stream the compressor writes
StreamMark == 59

\* brotli.NewWriter / Write / Close: a non-empty stream for every input
Compress(d) == <<StreamMark>> \o [i \in 1..Len(d) |-> (d[i] + 1) % 256]

\* brotli.NewReader over a stream: the input, or an error for a malformed stream
WellFormed(c) == Len(c) >= 1 /\ c[1] = StreamMark
Decompress(c) == [i \in 1..(Len(c) - 1) |-> (c[i + 1] + 255) % 256]

---------------------------------------------------------------------------
(* Keys: sort.Strings, strings.Join, strings.Split *)

RECURSIVE LexLess(_, _)
LexLess(a, b) ==
    IF a = <<>> THEN b # <<>>
    ELSE IF b = <<>> THEN FALSE
    ELSE IF Head(a) # Head(b) THEN Head(a) < Head(b)
    ELSE LexLess(Tail(a), Tail(b))

RECURSIVE SortStrings(_)
SortStrings(S) ==
    IF S = {} THEN <<>>
    ELSE LET least == CHOOSE k \in S : \A o \in S \ {k} : LexLess(k, o)
         IN  <<least>> \o SortStrings(S \ {least})

RECURSIVE Join(_, _)
Join(keys, sep) ==
    IF keys = <<>> THEN <<>>
    ELSE IF Len(keys) = 1 THEN keys[1]
    ELSE keys[1] \o <<sep>> \o Join(Tail(keys), sep)

RECURSIVE Split(_, _)
Split(s, sep) ==
    IF \A i \in 1..Len(s) : s[i] # sep THEN <<s>>
    ELSE LET at == CHOOSE i \in 1..Len(s) : s[i] = sep /\ \A j \in 1..(i - 1) : s[j] # sep
         IN  <<Slice(s, 0, at - 1)>> \o Split(Slice(s, at, Len(s) - at), sep)

---------------------------------------------------------------------------
(* Files *)

\* the paths flush works on: the live file, <path>.new and <path>.bak
Paths == {"live", "new", "bak"}

Absent == [exists |-> FALSE, bytes |-> <<>>]
Present(b) == [exists |-> TRUE, bytes |-> b]

\* store.file: nil, or a handle on a file's bytes
NoFile == [open |-> FALSE, bytes |-> <<>>]
Handle(b) == [open |-> TRUE, bytes |-> b]

\* os.Create, os.Remove, os.Rename (of a source that exists)
Create(filesys, p, b) == [filesys EXCEPT ![p] = Present(b)]
Remove(filesys, p) == [filesys EXCEPT ![p] = Absent]
Rename(filesys, from, to) == [filesys EXCEPT ![to] = filesys[from], ![from] = Absent]

\* file.Read into a buffer of n bytes at position pos returns n and no error
ReadFull(b, pos, n) == n = 0 \/ pos + n <= Len(b)

---------------------------------------------------------------------------
(* Get *)

NotFound == [value |-> <<>>, ok |-> FALSE]

\* a Get that does not look into the Value Cache
GetSkipCache(d, idx, f, key) ==
    IF key \notin DOMAIN idx THEN NotFound
    ELSE IF ~f.open THEN NotFound
    ELSE IF ~ReadFull(f.bytes, idx[key].Offset, idx[key].Size) THEN NotFound
    ELSE [value |-> <<>>, ok |-> TRUE]

\* Get on a store with Value Cache d, Index idx and file handle f
Get(d, idx, f, key) ==
    IF key \in DOMAIN d THEN [value |-> d[key], ok |-> TRUE]
    ELSE IF key \notin DOMAIN idx THEN NotFound
    \* Seek on a nil file fails
    ELSE IF ~f.open THEN NotFound
    \* the Size bytes at Offset are read into data
    ELSE IF ~ReadFull(f.bytes, idx[key].Offset, idx[key].Size) THEN NotFound
    \* the reader reads from the empty buffer zb, and zb.Bytes() is returned
    ELSE LET zb == <<>> IN [value |-> zb, ok |-> TRUE]

\* a Count of the Index
CountIndex(d, idx) == Cardinality(DOMAIN idx)

\* Count: the number of keys of the Value Cache
Count(d, idx) == Cardinality(DOMAIN d)

\* Keys: the keys of the Value Cache, each once, in any order (the results it can give)
KeysOf(d) ==
    {s \in [1..Cardinality(DOMAIN d) -> DOMAIN d] : \A k \in DOMAIN d : \E i \in DOMAIN s : s[i] = k}

---------------------------------------------------------------------------
(* readHeader *)

NoIndex == [x \in {} |-> [Offset |-> 0, Size |-> 0]]
HeaderErr == [ok |-> FALSE, index |-> NoIndex]

RECURSIVE SumTo(_, _)
SumTo(sizes, n) == IF n = 0 THEN 0 ELSE sizes[n] + SumTo(sizes, n - 1)

\* a readHeader that does not compare the key count with the keys of the blob
readHeaderNoCount(b) ==
    IF Len(b) < 8 THEN HeaderErr
    ELSE LET kc == Uint32(b, 0)
             ks == Uint32(b, 4)
         IN  IF Len(b) < 8 + 4 * kc THEN HeaderErr
             ELSE IF ~ReadFull(b, 8 + 4 * kc, ks) THEN HeaderErr
             ELSE LET sizes == [i \in 1..kc |-> Uint32(b, 8 + 4 * (i - 1))]
                      blob == Slice(b, 8 + 4 * kc, ks)
                      offset == 8 + 4 * kc + ks
                  IN  IF ~WellFormed(blob) THEN HeaderErr
                      ELSE LET keys == Split(Decompress(blob), DELIM)
                               n == IF Len(keys) < kc THEN Len(keys) ELSE kc
                               at(k) == CHOOSE i \in 1..n :
                                            keys[i] = k /\ \A j \in (i + 1)..n : keys[j] # k
                           IN  [ok |-> TRUE,
                                index |-> [k \in {keys[i] : i \in 1..n} |->
                                             [Offset |-> offset + SumTo(sizes, at(k) - 1),
                                              Size |-> sizes[at(k)]]]]

\* the index readHeader builds from the bytes of a file, or an error
readHeader(b) ==
    IF Len(b) < 8 THEN HeaderErr
    ELSE LET kc == Uint32(b, 0)
             ks == Uint32(b, 4)
         IN  IF Len(b) < 8 + 4 * kc THEN HeaderErr
             ELSE IF ~ReadFull(b, 8 + 4 * kc, ks) THEN HeaderErr
             ELSE LET sizes == [i \in 1..kc |-> Uint32(b, 8 + 4 * (i - 1))]
                      blob == Slice(b, 8 + 4 * kc, ks)
                      offset == 8 + 4 * kc + ks
                  IN  IF ~WellFormed(blob) THEN HeaderErr
                      ELSE LET keys == Split(Decompress(blob), DELIM)
                               at(k) == CHOOSE i \in 1..kc :
                                            keys[i] = k /\ \A j \in (i + 1)..kc : keys[j] # k
                           IN  IF Len(keys) # kc THEN HeaderErr
                               ELSE [ok |-> TRUE,
                                     index |-> [k \in {keys[i] : i \in 1..kc} |->
                                                  [Offset |-> offset + SumTo(sizes, at(k) - 1),
                                                   Size |-> sizes[at(k)]]]]

\* the keys and values a file holds, for a reader of the file format that readHeader
\* parses (each chunk decompressed); used to state the properties
Stored(f) ==
    IF ~f.exists \/ ~readHeader(f.bytes).ok THEN [x \in {} |-> <<>>]
    ELSE LET idx == readHeader(f.bytes).index
         IN  [k \in {x \in DOMAIN idx : ReadFull(f.bytes, idx[x].Offset, idx[x].Size)} |->
                Decompress(Slice(f.bytes, idx[k].Offset, idx[k].Size))]

---------------------------------------------------------------------------
(* save and flush *)

\* a save that writes an empty chunk for a key it cannot resolve
saveLenient(d, idx, f) ==
    LET keys == SortStrings(DOMAIN idx)
        n == Len(keys)
        got == [i \in 1..n |-> Get(d, idx, f, keys[i])]
        chunks == [i \in 1..n |-> Compress(got[i].value)]
        blob == Compress(Join(keys, DELIM))
    IN  [ok |-> TRUE,
         bytes |-> PutUint32(n) \o PutUint32(Len(blob))
                   \o Concat([i \in 1..n |-> PutUint32(Len(chunks[i]))])
                   \o blob \o Concat(chunks)]

\* writeHeader and save: the bytes written to <path>.new, or an error
save(d, idx, f) ==
    LET keys == SortStrings(DOMAIN idx)
        n == Len(keys)
        got == [i \in 1..n |-> Get(d, idx, f, keys[i])]
        chunks == [i \in 1..n |-> Compress(got[i].value)]
        blob == Compress(Join(keys, DELIM))
    IN  [ok |-> \A i \in 1..n : got[i].ok,
         bytes |-> PutUint32(n) \o PutUint32(Len(blob))
                   \o Concat([i \in 1..n |-> PutUint32(Len(chunks[i]))])
                   \o blob \o Concat(chunks)]

\* the steps of flush that can fail
Injections == {"none", "create", "close", "renameBak", "renameNew"}

\* a flush that leaves <path>.new behind when closing it fails
flushKeepingNew(d, idx, f, filesys, inject) ==
    IF inject = "create" THEN [err |-> "create", file |-> f, fs |-> filesys]
    ELSE LET saved == save(d, idx, f)
             fs1 == Create(filesys, "new", saved.bytes)
         IN  IF ~saved.ok THEN [err |-> "save", file |-> f, fs |-> Remove(fs1, "new")]
             ELSE IF inject = "close" THEN [err |-> "close", file |-> f, fs |-> fs1]
             ELSE IF ~fs1["live"].exists \/ inject = "renameBak"
                  THEN [err |-> "renameBak", file |-> NoFile, fs |-> Remove(fs1, "new")]
             ELSE LET fs2 == Rename(fs1, "live", "bak")
                  IN  IF inject = "renameNew"
                      THEN [err |-> "renameNew", file |-> NoFile, fs |-> Remove(Remove(fs2, "bak"), "new")]
                      ELSE [err |-> "nil", file |-> NoFile,
                            fs |-> Remove(Remove(Rename(fs2, "new", "live"), "bak"), "new")]

\* flush: the error returned ("nil" for none), store.file and the files after it;
\* inject names the file operation that the system fails, if any
flush(d, idx, f, filesys, inject) ==
    IF inject = "create" THEN [err |-> "create", file |-> f, fs |-> filesys]
    ELSE LET saved == save(d, idx, f)
             fs1 == Create(filesys, "new", saved.bytes)
         IN  IF ~saved.ok THEN [err |-> "save", file |-> f, fs |-> Remove(fs1, "new")]
             ELSE IF inject = "close" THEN [err |-> "close", file |-> f, fs |-> Remove(fs1, "new")]
             ELSE IF ~fs1["live"].exists \/ inject = "renameBak"
                  THEN [err |-> "renameBak", file |-> NoFile, fs |-> Remove(fs1, "new")]
             ELSE LET fs2 == Rename(fs1, "live", "bak")
                  IN  IF inject = "renameNew"
                      THEN [err |-> "renameNew", file |-> NoFile,
                            fs |-> Remove(Remove(fs2, "bak"), "new")]
                      ELSE [err |-> "nil", file |-> NoFile,
                            fs |-> Remove(Remove(Rename(fs2, "new", "live"), "bak"), "new")]

---------------------------------------------------------------------------
(* The store and its callers *)

NoValues == [x \in {} |-> <<>>]

\* what the last call was, what it was given and what it returned
Call(op, key, n, inject, err, flushes, res) ==
    [op |-> op, key |-> key, n |-> n, inject |-> inject, err |-> err,
     flushes |-> flushes, res |-> res]

\* what the callers did so far, for the properties:
\*   puts     the values Put or PutAll wrote since New, less the keys deleted since
\*   deleted  the keys deleted since New and not written again
\*   written  the keys ever given to Put or PutAll
\*   opened   the keys and values of the file New opened, while every call since
\*            was a successful Put or PutAll on other keys
\*   phase    "puts" while every call since the first New was a successful Put,
\*            "closed" after a Close that follows them, "reopened" after the New
\*            that follows it (opened then holds what was Put) and while only Get
\*            is called, "opened" after any other New that found a file, while
\*            opened is kept, and "other" otherwise

\* New on a path where no file exists
Init ==
    /\ fs = [p \in Paths |-> IF p = "live" THEN Present(<<>>) ELSE Absent]
    /\ file = Handle(<<>>)
    /\ data = NoValues
    /\ index = NoIndex
    /\ alive = TRUE
    /\ last = Call("New", <<>>, 0, "none", "nil", 0, NotFound)
    /\ puts = NoValues
    /\ deleted = {}
    /\ written = {}
    /\ opened = NoValues
    /\ phase = "puts"

\* a New that writes the header of an empty store into the file it creates
NewWritingHeader ==
    \E exists \in {fs["live"].exists} :
    \E fs1 \in {IF exists THEN fs ELSE Create(fs, "live", save(NoValues, NoIndex, NoFile).bytes)} :
    \E hdr \in {IF exists THEN readHeader(fs1["live"].bytes) ELSE [ok |-> TRUE, index |-> NoIndex]} :
        /\ fs' = fs1
        /\ alive' = hdr.ok
        /\ file' = IF hdr.ok THEN Handle(fs1["live"].bytes) ELSE NoFile
        /\ data' = NoValues
        /\ index' = hdr.index
        /\ last' = Call("New", <<>>, 0, "none", IF hdr.ok THEN "nil" ELSE "panic", 0, NotFound)
        /\ puts' = NoValues
        /\ deleted' = {}
        /\ written' = written
        /\ opened' = IF ~hdr.ok THEN NoValues
                     ELSE IF phase = "closed" THEN puts
                     ELSE Stored(fs1["live"])
        /\ phase' = IF ~hdr.ok THEN "other"
                    ELSE IF phase = "closed" THEN "reopened"
                    ELSE IF exists THEN "opened"
                    ELSE "other"

\* New and loadFromDisk: a new store on the path; a header that cannot be read panics
New ==
    \E exists \in {fs["live"].exists} :
    \E fs1 \in {IF exists THEN fs ELSE Create(fs, "live", <<>>)} :
    \E hdr \in {IF exists THEN readHeader(fs1["live"].bytes) ELSE [ok |-> TRUE, index |-> NoIndex]} :
        /\ fs' = fs1
        /\ alive' = hdr.ok
        /\ file' = IF hdr.ok THEN Handle(fs1["live"].bytes) ELSE NoFile
        /\ data' = NoValues
        /\ index' = hdr.index
        /\ last' = Call("New", <<>>, 0, "none", IF hdr.ok THEN "nil" ELSE "panic", 0, NotFound)
        /\ puts' = NoValues
        /\ deleted' = {}
        /\ written' = written
        /\ opened' = IF ~hdr.ok THEN NoValues
                     ELSE IF phase = "closed" THEN puts
                     ELSE Stored(fs1["live"])
        /\ phase' = IF ~hdr.ok THEN "other"
                    ELSE IF phase = "closed" THEN "reopened"
                    ELSE IF exists THEN "opened"
                    ELSE "other"

\* a Close that also drops the Value Cache
CloseDiscarding ==
    /\ alive
    /\ file' = NoFile
    /\ data' = NoValues
    /\ last' = Call("Close", <<>>, 0, "none", "nil", 0, NotFound)
    /\ opened' = NoValues
    /\ phase' = IF phase = "puts" THEN "closed" ELSE "other"
    /\ UNCHANGED <<fs, index, alive, puts, deleted, written>>

\* Close
Close ==
    /\ alive
    /\ file' = NoFile
    /\ last' = Call("Close", <<>>, 0, "none", "nil", 0, NotFound)
    /\ opened' = NoValues
    /\ phase' = IF phase = "puts" THEN "closed" ELSE "other"
    /\ UNCHANGED <<fs, data, index, alive, puts, deleted, written>>

\* Get(key)
GetCall(key) ==
    /\ alive
    /\ last' = Call("Get", key, 0, "none", "nil", 0, Get(data, index, file, key))
    /\ opened' = IF phase = "reopened" THEN opened ELSE NoValues
    /\ phase' = IF phase = "reopened" THEN "reopened" ELSE "other"
    /\ UNCHANGED <<fs, file, data, index, alive, puts, deleted, written>>

\* the Index entry Put records for a value
PutEntry(value) == [Offset |-> 0, Size |-> Len(value)]

\* a Put that restores the Value Cache and the Index when its flush fails
PutRollback(key, value, inject) ==
    \E index1 \in {MapPut(index, key, PutEntry(value))} :
    \E data1 \in {MapPut(data, key, value)} :
    \E r \in {flush(data1, index1, file, fs, inject)} :
    \E keep \in {phase = "opened" /\ r.err = "nil" /\ key \notin DOMAIN opened} :
        /\ alive
        /\ index' = IF r.err = "nil" THEN index1 ELSE index
        /\ data' = IF r.err = "nil" THEN data1 ELSE data
        /\ file' = r.file
        /\ fs' = r.fs
        /\ last' = Call("Put", key, 1, inject, r.err, 1, NotFound)
        /\ puts' = MapPut(puts, key, value)
        /\ deleted' = deleted \ {key}
        /\ written' = written \cup {key}
        /\ opened' = IF keep THEN opened ELSE NoValues
        /\ phase' = IF keep THEN "opened"
                    ELSE IF phase = "puts" /\ r.err = "nil" THEN "puts"
                    ELSE "other"
        /\ UNCHANGED alive

\* Put(key, value)
Put(key, value, inject) ==
    \E index1 \in {MapPut(index, key, PutEntry(value))} :
    \E data1 \in {MapPut(data, key, value)} :
    \E r \in {flush(data1, index1, file, fs, inject)} :
    \E keep \in {phase = "opened" /\ r.err = "nil" /\ key \notin DOMAIN opened} :
        /\ alive
        /\ index' = index1
        /\ data' = data1
        /\ file' = r.file
        /\ fs' = r.fs
        /\ last' = Call("Put", key, 1, inject, r.err, 1, NotFound)
        /\ puts' = MapPut(puts, key, value)
        /\ deleted' = deleted \ {key}
        /\ written' = written \cup {key}
        /\ opened' = IF keep THEN opened ELSE NoValues
        /\ phase' = IF keep THEN "opened"
                    ELSE IF phase = "puts" /\ r.err = "nil" THEN "puts"
                    ELSE "other"
        /\ UNCHANGED alive

\* the Index entry PutAll records
PutAllEntry == [Offset |-> 0, Size |-> 0]

\* a PutAll that flushes after every entry, in key order, up to the first error
RECURSIVE FlushEach(_, _, _, _, _, _, _)
FlushEach(keys, entries, d, idx, f, filesys, inject) ==
    IF keys = <<>> THEN [err |-> "nil", file |-> f, fs |-> filesys, data |-> d, index |-> idx]
    ELSE LET d1 == MapPut(d, Head(keys), entries[Head(keys)])
             idx1 == MapPut(idx, Head(keys), [Offset |-> 0, Size |-> 0])
             r == flush(d1, idx1, f, filesys, inject)
         IN  IF r.err # "nil"
             THEN [err |-> r.err, file |-> r.file, fs |-> r.fs,
                   data |-> MapMerge(d, entries),
                   index |-> MapMerge(idx, [k \in DOMAIN entries |-> [Offset |-> 0, Size |-> 0]])]
             ELSE FlushEach(Tail(keys), entries, d1, idx1, r.file, r.fs, inject)

PutAllPerKey(entries, inject) ==
    \E r \in {FlushEach(SortStrings(DOMAIN entries), entries, data, index, file, fs, inject)} :
        /\ alive
        /\ index' = r.index
        /\ data' = r.data
        /\ file' = r.file
        /\ fs' = r.fs
        /\ last' = Call("PutAll", <<>>, Cardinality(DOMAIN entries), inject, r.err,
                        Cardinality(DOMAIN entries), NotFound)
        /\ puts' = MapMerge(puts, entries)
        /\ deleted' = deleted \ DOMAIN entries
        /\ written' = written \cup DOMAIN entries
        /\ opened' = NoValues
        /\ phase' = "other"
        /\ UNCHANGED alive

\* PutAll(entries)
PutAll(entries, inject) ==
    \E index1 \in {MapMerge(index, [k \in DOMAIN entries |-> PutAllEntry])} :
    \E data1 \in {MapMerge(data, entries)} :
    \E r \in {flush(data1, index1, file, fs, inject)} :
    \E keep \in {phase = "opened" /\ r.err = "nil" /\ (DOMAIN entries) \cap (DOMAIN opened) = {}} :
        /\ alive
        /\ index' = index1
        /\ data' = data1
        /\ file' = r.file
        /\ fs' = r.fs
        /\ last' = Call("PutAll", <<>>, Cardinality(DOMAIN entries), inject, r.err, 1, NotFound)
        /\ puts' = MapMerge(puts, entries)
        /\ deleted' = deleted \ DOMAIN entries
        /\ written' = written \cup DOMAIN entries
        /\ opened' = IF keep THEN opened ELSE NoValues
        /\ phase' = IF keep THEN "opened" ELSE "other"
        /\ UNCHANGED alive

\* a Delete that flushes, as Put does
DeleteFlushing(key) ==
    \E data1 \in {MapDel(data, key)} :
    \E r \in {flush(data1, index, file, fs, "none")} :
        /\ alive
        /\ data' = data1
        /\ file' = r.file
        /\ fs' = r.fs
        /\ last' = Call("Delete", key, 0, "none", r.err, 1, NotFound)
        /\ puts' = MapDel(puts, key)
        /\ deleted' = deleted \cup {key}
        /\ opened' = NoValues
        /\ phase' = "other"
        /\ UNCHANGED <<index, alive, written>>

\* Delete(key)
Delete(key) ==
    /\ alive
    /\ data' = MapDel(data, key)
    /\ last' = Call("Delete", key, 0, "none", "nil", 0, NotFound)
    /\ puts' = MapDel(puts, key)
    /\ deleted' = deleted \cup {key}
    /\ opened' = NoValues
    /\ phase' = "other"
    /\ UNCHANGED <<fs, file, index, alive, written>>

Next ==
    \/ New
    \/ Close
    \/ \E key \in Keys : GetCall(key)
    \/ \E key \in Keys, value \in Values, inject \in Injections : Put(key, value, inject)
    \/ \E entries \in EntryMaps, inject \in Injections : PutAll(entries, inject)
    \/ \E key \in Keys : Delete(key)

Spec == Init /\ [][Next]_vars

---------------------------------------------------------------------------
(* Properties *)

\* the key list a reader of the file format finds in the live file
LiveKeys(filesys) == DOMAIN readHeader(filesys["live"].bytes).index

IsWrite(c) == c.op \in {"Put", "PutAll"}

\* C1: when the rename of <path>.new onto the live path fails during the flush of a
\* Put or PutAll, the live path holds after the call the keys and values it held
\* before it.
C1_RenameFailureKeepsOldContent ==
    [][(IsWrite(last') /\ last'.err = "renameNew")
         => Stored(fs'["live"]) = Stored(fs["live"])]_vars

\* C2: on a store opened on a file holding the keys K, after successful Put/PutAll
\* calls on keys outside K the live file holds every key of K with its original value.
C2_UntouchedKeysSurvive ==
    (alive /\ phase = "opened" /\ IsWrite(last))
        => \A k \in DOMAIN opened :
              k \in DOMAIN Stored(fs["live"]) /\ Stored(fs["live"])[k] = opened[k]

\* C3: after successful Puts on a fresh path, Close and New, Get of each key that was
\* Put returns found with the value Put last.
C3_RoundTrip ==
    (alive /\ phase = "reopened")
        => \A k \in DOMAIN opened :
              Get(data, index, file, k) = [value |-> opened[k], ok |-> TRUE]

\* C4: within a session Get of every key that was Put and not deleted since returns
\* found with the value of the most recent Put, whatever was Put on other keys since.
C4_GetReturnsLastPut ==
    alive => \A k \in DOMAIN puts : Get(data, index, file, k) = [value |-> puts[k], ok |-> TRUE]

C4_Witness ==
    /\ alive /\ last.op = "Put" /\ last.err = "nil"
    /\ ~file.open
    /\ \E k \in DOMAIN puts : k # last.key /\ puts[k] # <<>>

\* C5: after Delete(k), Get(k) is not found until k is written again.
C5_DeletedNotFound ==
    alive => \A k \in deleted : ~Get(data, index, file, k).ok

\* C6: a Put/PutAll on other keys that follows Delete(k), with no file operation
\* failing, succeeds and writes a key list without k to the live file.
C6_DeleteDurableAtNextFlush ==
    [][(IsWrite(last') /\ last'.inject = "none" /\ fs["live"].exists /\ deleted' # {})
         => (last'.err = "nil" /\ deleted' \cap LiveKeys(fs') = {})]_vars

C8_NilValueIsStored ==
    /\ [][(last'.op = "Put" /\ last'.inject = "none" /\ fs["live"].exists
             /\ puts'[last'.key] = <<>>)
            => (/\ last'.err = "nil"
                /\ Get(data', index', file', last'.key) = [value |-> <<>>, ok |-> TRUE])]_vars
    /\ [](alive => \A k \in Keys \ written : ~Get(data, index, file, k).ok)

C10_CountAndKeys ==
    /\ [](alive => /\ Count(data, index) = Cardinality(DOMAIN puts)
                   /\ \A s \in KeysOf(data) :
                         /\ Len(s) = Cardinality(DOMAIN puts)
                         /\ {s[i] : i \in DOMAIN s} = DOMAIN puts
                         /\ \A i, j \in DOMAIN s : s[i] = s[j] => i = j)
    /\ [][(last'.op = "Put" /\ last'.key \in DOMAIN data)
            => Count(data', index') = Count(data, index)]_vars

C10_Witness ==
    /\ alive /\ last.op = "Put" /\ Count(data, index) = 2
    /\ \E k \in DOMAIN data : data[k] = <<>>

---------------------------------------------------------------------------
(* New on the files a path can hold: the files the store writes, the same files cut
   short at every length, and the same files with a key count that is one more or
   one less than the number of keys in the key blob *)

\* a file in the layout writeHeader and save produce, with the key count n
FileOf(n, keys, values) ==
    LET blob == Compress(Join(keys, DELIM))
        chunks == [i \in 1..Len(keys) |-> Compress(values[i])]
    IN  PutUint32(n) \o PutUint32(Len(blob))
        \o Concat([i \in 1..n |-> PutUint32(IF i <= Len(keys) THEN Len(chunks[i]) ELSE 0)])
        \o blob \o Concat(chunks)

WrittenFiles ==
    {FileOf(Cardinality(DOMAIN m), SortStrings(DOMAIN m),
            [i \in 1..Cardinality(DOMAIN m) |-> m[SortStrings(DOMAIN m)[i]]]) : m \in EntryMaps}

MiscountedFiles ==
    UNION {{FileOf(n, SortStrings(DOMAIN m),
                   [i \in 1..Cardinality(DOMAIN m) |-> m[SortStrings(DOMAIN m)[i]]]) :
               n \in {Cardinality(DOMAIN m) - 1, Cardinality(DOMAIN m) + 1}} :
           m \in EntryMaps \ {NoValues}}

CutFiles == UNION {{Slice(b, 0, n) : n \in 0..(Len(b) - 1)} : b \in WrittenFiles}

FilesOnDisk == WrittenFiles \cup MiscountedFiles \cup CutFiles

\* a file at the path, no store yet
InitOpen ==
    /\ fs \in {[p \in Paths |-> IF p = "live" THEN Present(b) ELSE Absent] : b \in FilesOnDisk}
    /\ file = NoFile
    /\ data = NoValues
    /\ index = NoIndex
    /\ alive = FALSE
    /\ last = Call("none", <<>>, 0, "none", "nil", 0, NotFound)
    /\ puts = NoValues
    /\ deleted = {}
    /\ written = {}
    /\ opened = NoValues
    /\ phase = "other"

NextOpen == New

SpecOpen == InitOpen /\ [][NextOpen]_vars

\* a header field is cut short: the file ends before the end of the key blob
HeaderCut(b) ==
    \/ Len(b) < 8
    \/ Len(b) < 8 + 4 * Uint32(b, 0) + Uint32(b, 4)

\* the number of keys in the key blob
BlobKeys(b) ==
    Len(Split(Decompress(Slice(b, 8 + 4 * Uint32(b, 0), Uint32(b, 4))), DELIM))

\* the key count of the header is not the number of keys in the key blob
CountMismatch(b) ==
    /\ ~HeaderCut(b)
    /\ WellFormed(Slice(b, 8 + 4 * Uint32(b, 0), Uint32(b, 4)))
    /\ BlobKeys(b) # Uint32(b, 0)

\* C11: New on a file whose header is cut short, or whose key count differs from the
\* number of keys in the key blob, fails: no store is returned and no key of the
\* file is loaded into the Index.
C11_CorruptFileNotLoaded ==
    (last.op = "New" /\ (HeaderCut(fs["live"].bytes) \/ CountMismatch(fs["live"].bytes)))
        => (~alive /\ last.err = "panic" /\ index = NoIndex /\ ~file.open)

C11_Witness ==
    /\ last.op = "New" /\ ~alive
    /\ CountMismatch(fs["live"].bytes)
    /\ Uint32(fs["live"].bytes, 0) = BlobKeys(fs["live"].bytes) + 1
    /\ BlobKeys(fs["live"].bytes) = 2

\* C12: New on a path where no file exists creates an empty file there and gives a
\* store with an empty Index, an empty Value Cache and an open handle on that file;
\* the file stays empty (no header) until a Put or PutAll flushes.
C12_NewCreatesEmptyFile ==
    /\ [][(last'.op = "New" /\ ~fs["live"].exists)
            => /\ fs' = Create(fs, "live", <<>>)
               /\ alive' /\ last'.err = "nil"
               /\ index' = NoIndex /\ data' = NoValues
               /\ file' = Handle(<<>>)]_vars
    /\ [][(fs["live"] = Present(<<>>) /\ ~IsWrite(last')) => fs'["live"] = Present(<<>>)]_vars

\* the live file was lost after keys were written, and New has created it again
C12_Witness ==
    /\ last.op = "New" /\ alive
    /\ written # {}
    /\ fs["live"] = Present(<<>>)
    /\ file = Handle(<<>>)

\* C13: when the rename of the live file to <path>.bak fails, the write returns an
\* error, the live file is untouched, and the store resolves every Index key it
\* resolved before the call.
C13_BakRenameFailureKeepsStore ==
    [][(IsWrite(last') /\ last'.err = "renameBak")
         => /\ fs'["live"] = fs["live"]
            /\ \A k \in DOMAIN index :
                 Get(data, index, file, k).ok => Get(data', index', file', k).ok]_vars

\* C14: a Put or PutAll whose flush fails at any step returns an error and is not
\* rolled back in memory: Get of every key written finds the value written, and
\* Count and Keys include the key.
C14_FailedWriteKeepsMutation ==
    /\ (IsWrite(last) /\ last.inject # "none") => last.err # "nil"
    /\ (alive /\ IsWrite(last) /\ last.err # "nil")
         => /\ last.op = "Put" => last.key \in DOMAIN puts
            /\ \A k \in DOMAIN puts :
                 /\ Get(data, index, file, k) = [value |-> puts[k], ok |-> TRUE]
                 /\ Count(data, index) >= 1
                 /\ \A s \in KeysOf(data) : \E i \in DOMAIN s : s[i] = k

C14_Witness ==
    /\ alive /\ last.op = "Put" /\ last.err = "close"
    /\ last.key \in DOMAIN puts
    /\ puts[last.key] # <<>>
    /\ Get(data, index, file, last.key).value # <<>>

\* C15: Close never fails, leaves the file handle absent in whatever state it is
\* called (also on a store that is closed already), and leaves the Index and the
\* Value Cache as they were, so Get of a cached key gives the same value after it.
C15_CloseKeepsMemory ==
    [][last'.op = "Close"
         => /\ ~file'.open
            /\ last'.err = "nil"
            /\ index' = index /\ data' = data
            /\ \A k \in DOMAIN data :
                 Get(data', index', file', k) = [value |-> data[k], ok |-> TRUE]]_vars

\* a Close of a store whose handle a flush had released already, values cached
C15_Witness ==
    /\ last.op = "Close" /\ alive
    /\ phase = "closed"
    /\ ~file.open
    /\ \E k \in DOMAIN data : data[k] # <<>> /\ Get(data, index, file, k).value = data[k]

\* C16: a Put or PutAll on a store whose handle Close released succeeds, persists
\* what was written, and returns with an open handle on the live file.
C16_WriteAfterCloseReopens ==
    [][(IsWrite(last') /\ last.op = "Close" /\ last'.inject = "none" /\ fs["live"].exists)
         => /\ last'.err = "nil"
            /\ \A k \in DOMAIN puts' :
                 k \in DOMAIN Stored(fs'["live"]) /\ Stored(fs'["live"])[k] = puts'[k]
            /\ file' = Handle(fs'["live"].bytes)]_vars

\* the file save writes for the keys and values of m
FileOfMap(m) ==
    FileOf(Cardinality(DOMAIN m), SortStrings(DOMAIN m),
           [i \in 1..Cardinality(DOMAIN m) |-> m[SortStrings(DOMAIN m)[i]]])

\* C17: the live file after a successful flush is a function of the logical content
\* (the same bytes whatever the order of the writes), and a write that changes
\* nothing after a successful write succeeds again and leaves the same bytes.
C17_FileIsFunctionOfContent ==
    /\ [](  (alive /\ IsWrite(last) /\ last.err = "nil" /\ phase \in {"puts", "opened"})
              => fs["live"] = Present(FileOfMap(MapMerge(opened, puts))))
    /\ [][(/\ IsWrite(last) /\ last.err = "nil"
           /\ IsWrite(last') /\ last'.inject = "none"
           /\ data' = data /\ DOMAIN index' = DOMAIN index)
            => (last'.err = "nil" /\ fs'["live"] = fs["live"])]_vars

\* C18: after a successful Put or PutAll, every key that is in the Index and not in
\* the Value Cache is resolved by Get with the bytes stored for it in the new file.
C18_IndexKeysResolvableAfterFlush ==
    (alive /\ IsWrite(last) /\ last.err = "nil")
        => \A k \in (DOMAIN index) \ (DOMAIN data) :
             /\ k \in DOMAIN Stored(fs["live"])
             /\ Get(data, index, file, k) = [value |-> Stored(fs["live"])[k], ok |-> TRUE]

\* C19: the Index holds no deleted key: every key of the Index is a key the store
\* contains.
C19_NoStaleIndexEntry ==
    alive => (deleted \cap DOMAIN index = {})

\* C20: a Get that resolves its key from the file through the Index returns the
\* decompressed value stored in the file and inserts it into the Value Cache, so
\* that Count, Keys and a second Get see it.
C20_GetIsReadThrough ==
    [][(last'.op = "Get" /\ last'.res.ok /\ last'.key \notin DOMAIN data)
         => /\ last'.key \in DOMAIN Stored(fs["live"])
            /\ last'.res.value = Stored(fs["live"])[last'.key]
            /\ last'.key \in DOMAIN data'
            /\ data'[last'.key] = last'.res.value
            /\ Get(data', index', file', last'.key) = last'.res]_vars

\* the position of the data region in the bytes of a file with a readable header
DataBase(b) == IF Len(b) < 8 THEN 0 ELSE 8 + 4 * Uint32(b, 0) + Uint32(b, 4)

\* the sum of the Index sizes of the first n keys
RECURSIVE SizeSum(_, _, _)
SizeSum(idx, keys, n) == IF n = 0 THEN 0 ELSE idx[keys[n]].Size + SizeSum(idx, keys, n - 1)

\* C21: after New and after every successful Put or PutAll, for the Index keys in
\* sorted order, the size of each key is the length of its compressed chunk in
\* the live file and its offset is the sum of the sizes of the keys before it,
\* counted from the start of the data region (directly, or with the position of the
\* data region added, as readHeader records it).
C21_EntryBookkeeping ==
    (alive /\ fs["live"].exists /\ (last.op = "New" \/ (IsWrite(last) /\ last.err = "nil")))
        => LET keys == SortStrings(DOMAIN index)
               stored == Stored(fs["live"])
           IN  \E base \in {0, DataBase(fs["live"].bytes)} :
               \A i \in 1..Len(keys) :
                   /\ keys[i] \in DOMAIN stored
                   /\ index[keys[i]].Size = Len(Compress(stored[keys[i]]))
                   /\ index[keys[i]].Offset = base + SizeSum(index, keys, i - 1)

\* C22: when a Put or PutAll has returned, with or without an error, <path>.new
\* does not exist; when it returned without an error, <path>.bak does not exist
\* and the live file holds what save wrote for the store, with every value written.
C22_NoTransientFiles ==
    [][IsWrite(last')
         => /\ ~fs'["new"].exists
            /\ last'.err = "nil"
                 => /\ ~fs'["bak"].exists
                    /\ fs'["live"] = Present(save(data', index', file).bytes)
                    /\ \A k \in DOMAIN data' : Stored(fs'["live"])[k] = data'[k]]_vars

\* a write failed when closing <path>.new, which held the file of a store with values
C22_Witness ==
    /\ IsWrite(last) /\ last.err = "close"
    /\ ~fs["new"].exists /\ ~fs["bak"].exists
    /\ fs["live"].exists
    /\ \E k \in DOMAIN data : data[k] # <<>>

\* C23: when a key to persist is found neither in the Value Cache nor in the old
\* file, the Put or PutAll returns an error before any rename: the live file is as
\* it was and no <path>.bak and no <path>.new is left.
C23_UnresolvableKeyAbortsFlush ==
    [][(IsWrite(last') /\ \E k \in DOMAIN index' : ~Get(data', index', file, k).ok)
         => /\ last'.err \in {"create", "save"}
            /\ last'.inject # "create" => last'.err = "save"
            /\ fs'["live"] = fs["live"]
            /\ ~fs'["bak"].exists /\ ~fs'["new"].exists
            /\ file' = file]_vars

\* a write failed on a key of the Index that is in neither place, a live file exists
C23_Witness ==
    /\ IsWrite(last) /\ last.err = "save" /\ last.inject = "none"
    /\ fs["live"].exists
    /\ Stored(fs["live"]) # NoValues
    /\ \E k \in DOMAIN index : ~Get(data, index, file, k).ok

\* C24: when no file operation fails and the live file exists, every Put and
\* PutAll returns nil, after any earlier calls.
C24_WritesSucceedWithoutFailures ==
    [][(IsWrite(last') /\ last'.inject = "none" /\ fs["live"].exists) => last'.err = "nil"]_vars

\* C25: New on a path that holds a file the store created or wrote succeeds, and
\* when that file holds no keys the store it returns is empty.
C25_OwnFilesReopen ==
    [][(last'.op = "New" /\ fs["live"].exists)
         => /\ alive' /\ last'.err = "nil"
            /\ file' = Handle(fs["live"].bytes)
            /\ Stored(fs["live"]) = NoValues => (index' = NoIndex /\ data' = NoValues)]_vars

====
